---- MODULE Spec2Model ----
(***************************************************************************)
(* Model of the progress-tracked PDF ingestion of papr-fastapi-pdf-chat:   *)
(* the process-wide progress store and its tracker                         *)
(* (app/routers/upload_progress.py), the two ingestion routes with their   *)
(* chunk loops (app/services/papr_service.py,                              *)
(* app/services/enhanced_memory_service.py, app/services/pdf_service.py),  *)
(* the delayed clean-up threads, the point query and the progress stream,  *)
(* the two chunkers, the fallback metadata, the local document store       *)
(* (app/services/document_store.py) and the list and delete routes         *)
(* (app/routers/documents.py).                                             *)
(*                                                                         *)
(* Scheduling.  The routes are coroutines of one asyncio event loop: a     *)
(* coroutine runs until it awaits a pending future.  The only such await   *)
(* of an ingestion route is inside PDFService.save_file (file.read, the    *)
(* aiofiles calls); add_document is synchronous and the awaits of the      *)
(* enrichment path wrap synchronous client calls.  The variable loop names *)
(* the coroutine that holds the event loop.  The clean-up of a completed   *)
(* upload runs on a thread of its own and interleaves with everything.     *)
(***************************************************************************)
EXTENDS Integers, Sequences, FiniteSets, TLC

\* ------------------------------------------------------------ bounds
MaxChunks == 3
MaxRuns == 2
MaxParagraphs == 2
MaxWords == 2
MaxWordChars == 4
MaxWidth == 2
MaxSize == 3
MaxCalls == 4
TickLen == 100

\* ------------------------------------------------- program constants
GraceWindow == 300
MaxWait == 50
PctOne == 1000

Jobs == {"j1", "j2"}
Runs == 1..MaxRuns

\* The coroutines that can hold the event loop besides the ingestion runs:
\* the handler of a point query and the generator of a progress stream.
GetTask == MaxRuns + 1
StreamTask == MaxRuns + 2
Paths == {"basic", "enhanced"}

\* The uploaded file, as far as the routes tell files apart: what
\* validation and extraction make of it and the number of chunks its text
\* splits into.
BadFiles == {"no_filename", "bad_type", "too_large", "too_large_read", "no_text"}
Files == {[kind |-> "ok", chunks |-> n] : n \in 1..MaxChunks}
             \cup {[kind |-> k, chunks |-> 0] : k \in BadFiles}

VARIABLES progress_store, runs, written, sent, cleanup, loop, nextUuid,
          getResp, sawTerminal, stream, polled, call,
          documents_store, upload_dir

vars == <<progress_store, runs, written, sent, cleanup, loop, nextUuid,
          getResp, sawTerminal, stream, polled, call,
         documents_store, upload_dir>>

\* ------------------------------------------------------ the tracker

\* current / total * 100 in binary floating point, held in thousandths of a
\* percent.  With total = 100 (the only total the routes pass) the quotient
\* is not always representable and the product misses the integer by one
\* unit in the last place for these values of current.
FloatErr100(current) ==
    CASE current \in {7, 14, 28, 55, 56} -> 1
      [] current \in {29, 57, 58} -> -1
      [] OTHER -> 0

Percent(current, total) ==
    IF total > 0
    THEN IF total = 100
         THEN current * PctOne + FloatErr100(current)
         ELSE (current * 100 * PctOne) \div total
    ELSE 0

\* d[k] = v on a dict.
DictSet(d, k, v) == [x \in DOMAIN d \cup {k} |-> IF x = k THEN v ELSE d[x]]

\* del d[k].
DictDel(d, k) == [x \in DOMAIN d \ {k} |-> d[x]]

update_progress(current, total, message) ==
    [current |-> current, total |-> total, percent |-> Percent(current, total),
     message |-> message, status |-> "processing"]

\* The completion record without its result.
complete_NoResult(result) ==
    [current |-> result.chunks_created, total |-> result.total_chunks,
     percent |-> 100 * PctOne,
     message |-> <<"Complete! Created chunks", result.chunks_created>>,
     status |-> "complete"]

complete(result) ==
    [current |-> result.chunks_created, total |-> result.total_chunks,
     percent |-> 100 * PctOne,
     message |-> <<"Complete! Created chunks", result.chunks_created>>,
     status |-> "complete", result |-> result]

error(error_message) ==
    [current |-> 0, total |-> 100, percent |-> 0,
     message |-> <<"Error: ">> \o error_message,
     status |-> "error", error |-> error_message]

\* The progress of a callback that does not divide by the chunk count.
CallbackProgress_Unscaled(base, span, current_chunk, total_chunks) ==
    base + current_chunk * span

\* The callbacks the routes hand to the services: int(base + c / t * span).
\* int() of the floating-point value equals the integer quotient for every
\* total up to 16 (checked against the interpreter).
CallbackProgress(base, span, current_chunk, total_chunks) ==
    base + (IF total_chunks > 0 THEN (current_chunk * span) \div total_chunks ELSE 0)

progress_callback_basic(current_chunk, total_chunks, message) ==
    update_progress(CallbackProgress(30, 70, current_chunk, total_chunks), 100,
                     message \o <<current_chunk, total_chunks>>)

progress_callback_enhanced(current_chunk, total_chunks, message) ==
    update_progress(CallbackProgress(20, 80, current_chunk, total_chunks), 100,
                     message)

\* --------------------------------------------------------- exceptions
\* An exception is its type and its message; str(e) is the message.
Exc(type, msg) == [type |-> type, msg |-> msg]
NoExc == <<>>
Str(e) == e.msg

ValidationError(kind) ==
    CASE kind = "no_filename" -> Exc("HTTPException", <<"400: No filename provided">>)
      [] kind = "bad_type" -> Exc("HTTPException", <<"400: File type not allowed">>)
      [] kind = "too_large" -> Exc("HTTPException", <<"413: File too large">>)

SaveError(kind) ==
    CASE kind = "too_large_read" ->
             Exc("HTTPException", <<"500: Error saving file: 413: File too large">>)
      [] kind = "no_text" ->
             Exc("HTTPException", <<"400: No readable text found in PDF">>)

\* What a remote add call can do: return an item id, return no data, raise.
UploadOutcomes == {"ok", "no_data", "raise"}

UploadError(path, outcome, i) ==
    CASE outcome = "raise" -> Exc("APIError", <<"remote store request failed">>)
      [] outcome = "no_data" /\ path = "basic" ->
             Exc("ValueError", <<"No data returned for chunk", i + 1>>)
      [] outcome = "no_data" /\ path = "enhanced" ->
             Exc("TypeError", <<"'NoneType' object is not subscriptable">>)

\* ----------------------------------------------------------- metadata
\* The metadata keys the model follows: the grouping keys, the enhanced
\* flag and one key of the route's base metadata.
standard_fields ==
    {"topic_tags", "external_user_id", "created_at", "document_id", "chunk_index",
     "total_chunks", "enhanced", "heading_hierarchy", "source_url"}

ChunkMetadata(document_group_id, i, total) ==
    [document_id |-> document_group_id, chunk_index |-> i, total_chunks |-> total]

\* _create_fallback_metadata, with the document id it generates.
create_fallback_metadata(uuid, chunk_index, total_chunks) ==
    [upload_type |-> "enhanced", document_id |-> uuid, chunk_index |-> chunk_index,
     total_chunks |-> total_chunks, enhanced |-> FALSE]

\* What the LLM call of _generate_enhanced_metadata can do: answer with the
\* tool call, answer without one, fail (a timeout, an API error, arguments
\* that are no JSON).
LlmOutcomes == {"tool_call", "no_tool_call", "error"}

\* _generate_enhanced_metadata: the LLM's metadata, or the fallback metadata
\* when there is no tool call or the call raised; it never raises.
generate_enhanced_metadata(llm, uuid, chunk_index, total_chunks) ==
    IF llm = "tool_call"
    THEN [upload_type |-> "enhanced", document_id |-> uuid, chunk_index |-> chunk_index,
          total_chunks |-> total_chunks, enhanced |-> TRUE]
    ELSE create_fallback_metadata(uuid, chunk_index, total_chunks)

\* custom_metadata of add_memory_with_metadata: the keys that are not
\* standard fields.  Of the standard fields only topic_tags, created_at,
\* heading_hierarchy and source_url are passed on, under other names.
CustomMetadata(metadata) ==
    [k \in DOMAIN metadata \ standard_fields |-> metadata[k]]

\* DocumentStore.add_document: the entry of a document (one user,
\* demo_user; the file name, size and upload time are left out).
DocumentEntry(document_id, chunks_created, total_chunks) ==
    [id |-> document_id, chunks_created |-> chunks_created,
     total_chunks |-> total_chunks]

\* --------------------------------------------------------------- state
IdleRun ==
    [pc |-> "idle", upload_id |-> "", path |-> "", file |-> "", n |-> 0, i |-> 0,
     document_id |-> 0, enhanced_chunks |-> <<>>, chunk_ids |-> 0,
     exc |-> NoExc, response |-> <<>>, documents |-> <<>>]

NoCleanup == [st |-> "none", left |-> 0]

\* The variable call holds the last direct call of a tracker method or of a
\* chunker, with its arguments and what it returned.
NoCall == [op |-> "none"]

Init ==
    /\ progress_store = <<>>
    /\ runs = [r \in Runs |-> IdleRun]
    /\ written = [r \in Runs |-> <<>>]
    /\ sent = [r \in Runs |-> <<>>]
    /\ cleanup = [r \in Runs |-> NoCleanup]
    /\ loop = 0
    /\ nextUuid = 1
    /\ getResp = [upload_id |-> "", status_code |-> 0, body |-> <<>>]
    /\ sawTerminal = {}
    /\ stream = [pc |-> "idle", upload_id |-> "", wait_count |-> 0,
                 last_progress |-> <<>>, events |-> <<>>,
                 suppressed |-> FALSE, end |-> ""]
    /\ polled = FALSE
    /\ call = NoCall
    /\ documents_store = <<>>
    /\ upload_dir = {}

\* The files the services keep on disk.
Disk == <<documents_store, upload_dir>>

\* A tracker write by run r: the record replaces the job's record.
Write(r, rec) ==
    /\ progress_store' = DictSet(progress_store, runs[r].upload_id, rec)
    /\ written' = [written EXCEPT ![r] = Append(@, rec)]

Readers == <<getResp, sawTerminal, stream, polled, call>>

\* ---------------------------------------------------- ingestion routes
\* The start of a run that leaves the record of an id that has one.
Start_KeepExisting(r, upload_id, path, file) ==
    /\ loop = 0
    /\ runs[r].pc = "idle"
    /\ \A q \in Runs : q < r => runs[q].pc # "idle"
    /\ runs' = [runs EXCEPT ![r] = [IdleRun EXCEPT !.pc = "init", !.upload_id = upload_id,
                                       !.path = path, !.file = file.kind,
                                       !.n = file.chunks,
                                       !.documents = documents_store]]
    /\ progress_store' =
           IF upload_id \in DOMAIN progress_store
           THEN progress_store
           ELSE DictSet(progress_store, upload_id,
                    update_progress(0, 100,
                        IF path = "basic" THEN <<"Starting upload...">>
                                          ELSE <<"Starting enhanced upload...">>))
    /\ written' = [written EXCEPT ![r] = Append(@,  progress_store'[upload_id])]
    /\ loop' = r
    /\ UNCHANGED <<sent, cleanup, nextUuid, Readers, Disk>>

\* upload_document_with_progress / upload_document_enhanced_with_progress:
\* a request arrives; the handler takes the event loop and writes its first
\* record.  Requests are numbered in the order they arrive.
Start(r, upload_id, path, file) ==
    /\ loop = 0
    /\ runs[r].pc = "idle"
    /\ \A q \in Runs : q < r => runs[q].pc # "idle"
    /\ runs' = [runs EXCEPT ![r] = [IdleRun EXCEPT !.pc = "init", !.upload_id = upload_id,
                                       !.path = path, !.file = file.kind,
                                       !.n = file.chunks,
                                       !.documents = documents_store]]
    /\ progress_store' = DictSet(progress_store, upload_id,
           update_progress(0, 100,
               IF path = "basic" THEN <<"Starting upload...">>
                                 ELSE <<"Starting enhanced upload...">>))
    /\ written' = [written EXCEPT ![r] = Append(@,  progress_store'[upload_id])]
    /\ loop' = r
    /\ UNCHANGED <<sent, cleanup, nextUuid, Readers, Disk>>

\* tracker.update_progress(10, 100, "Processing PDF...")
BeginPdf(r) ==
    /\ loop = r
    /\ runs[r].pc = "init"
    /\ Write(r, update_progress(10, 100, <<"Processing PDF...">>))
    /\ runs' = [runs EXCEPT ![r].pc = "validate"]
    /\ UNCHANGED <<sent, cleanup, loop, nextUuid, Readers, Disk>>

\* PDFService.save_file up to its first await: _validate_file raises, or the
\* handler is suspended in file.read() and gives up the event loop.
Validate(r) ==
    /\ loop = r
    /\ runs[r].pc = "validate"
    /\ IF runs[r].file \in {"no_filename", "bad_type", "too_large"}
       THEN /\ runs' = [runs EXCEPT ![r].pc = "except",
                                    ![r].exc = ValidationError(runs[r].file)]
            /\ loop' = loop
       ELSE /\ runs' = [runs EXCEPT ![r].pc = "saving"]
            /\ loop' = 0
    /\ UNCHANGED <<progress_store, written, sent, cleanup, nextUuid, Readers, Disk>>

\* The rest of PDFService.process_pdf once the file is read: the size check
\* on the content, the write to disk and extract_text_from_pdf, with the
\* removal of the file when the extraction fails.  The file of run r is r
\* in upload_dir: its name starts with a fresh uuid.
SaveAndExtract(r) ==
    /\ loop = 0
    /\ runs[r].pc = "saving"
    /\ loop' = r
    /\ IF runs[r].file \in {"too_large_read", "no_text"}
       THEN runs' = [runs EXCEPT ![r].pc = "except", ![r].exc = SaveError(runs[r].file)]
       ELSE runs' = [runs EXCEPT ![r].pc = "extracted"]
    /\ upload_dir' = IF runs[r].file \in {"too_large_read", "no_text"}
                     THEN upload_dir
                     ELSE upload_dir \cup {r}
    /\ UNCHANGED <<progress_store, written, sent, cleanup, nextUuid, Readers,
                   documents_store>>

\* tracker.update_progress(30 | 20, 100, ...) after process_pdf returned.
BeginIngest(r) ==
    /\ loop = r
    /\ runs[r].pc = "extracted"
    /\ Write(r, IF runs[r].path = "basic"
                THEN update_progress(30, 100, <<"Uploading to memory system...">>)
                ELSE update_progress(20, 100, <<"Starting enhanced AI processing...">>))
    /\ runs' = [runs EXCEPT ![r].pc = "ingest"]
    /\ UNCHANGED <<sent, cleanup, loop, nextUuid, Readers, Disk>>

\* PaprMemoryService.add_document up to its chunk loop: the document group
\* id, the chunks, progress_callback(0, n, "Starting chunk upload...").
AddDocumentBegin(r) ==
    /\ loop = r
    /\ runs[r].pc = "ingest"
    /\ runs[r].path = "basic"
    /\ Write(r, progress_callback_basic(0, runs[r].n, <<"Starting chunk upload...">>))
    /\ runs' = [runs EXCEPT ![r].pc = "upload", ![r].i = 0, ![r].chunk_ids = 0,
                            ![r].document_id = nextUuid]
    /\ nextUuid' = nextUuid + 1
    /\ UNCHANGED <<sent, cleanup, loop, Readers, Disk>>

\* add_document with the failure of a chunk swallowed: the loop goes on to
\* the next chunk.
AddDocumentChunk_KeepGoing(r, outcome) ==
    /\ loop = r
    /\ runs[r].pc = "upload"
    /\ runs[r].path = "basic"
    /\ runs[r].i < runs[r].n
    /\ sent' = [sent EXCEPT ![r] = Append(@,
                   [call |-> "memory.add", content |-> runs[r].i, outcome |-> outcome,
                    custom_metadata |->
                        ChunkMetadata(runs[r].document_id, runs[r].i, runs[r].n)])]
    /\ Write(r, progress_callback_basic(runs[r].i + 1, runs[r].n,
                   <<"Uploaded chunk", runs[r].i + 1, runs[r].n>>))
    /\ LET chunk_ids == runs[r].chunk_ids + (IF outcome = "ok" THEN 1 ELSE 0)
           last == runs[r].i + 1 = runs[r].n
           documents == IF last
                        THEN DictSet(runs[r].documents, runs[r].document_id,
                                     DocumentEntry(runs[r].document_id, chunk_ids,
                                                   runs[r].n))
                        ELSE runs[r].documents
       IN  /\ runs' = [runs EXCEPT ![r].i = @ + 1,
                          ![r].chunk_ids = chunk_ids,
                          ![r].documents = documents,
                          ![r].pc = IF last THEN "uploaded" ELSE "upload"]
           /\ documents_store' = IF last THEN documents ELSE documents_store
    /\ UNCHANGED <<cleanup, loop, nextUuid, Readers, upload_dir>>

\* One turn of add_document's chunk loop: client.memory.add for chunk i, then
\* the progress callback, or the exception that ends the loop.  After the
\* last chunk the service's DocumentStore adds the document to the entries
\* it loaded when it was built and writes them all to the store file.
AddDocumentChunk(r, outcome) ==
    /\ loop = r
    /\ runs[r].pc = "upload"
    /\ runs[r].path = "basic"
    /\ runs[r].i < runs[r].n
    /\ sent' = [sent EXCEPT ![r] = Append(@,
                   [call |-> "memory.add", content |-> runs[r].i, outcome |-> outcome,
                    custom_metadata |->
                        ChunkMetadata(runs[r].document_id, runs[r].i, runs[r].n)])]
    /\ IF outcome = "ok"
       THEN LET last == runs[r].i + 1 = runs[r].n
                documents == IF last
                             THEN DictSet(runs[r].documents, runs[r].document_id,
                                          DocumentEntry(runs[r].document_id,
                                                        runs[r].chunk_ids + 1,
                                                        runs[r].n))
                             ELSE runs[r].documents
            IN  /\ Write(r, progress_callback_basic(runs[r].i + 1, runs[r].n,
                              <<"Uploaded chunk", runs[r].i + 1, runs[r].n>>))
                /\ runs' = [runs EXCEPT ![r].i = @ + 1, ![r].chunk_ids = @ + 1,
                               ![r].documents = documents,
                               ![r].pc = IF last THEN "uploaded" ELSE "upload"]
                /\ documents_store' = IF last THEN documents ELSE documents_store
       ELSE /\ runs' = [runs EXCEPT ![r].pc = "except",
                           ![r].exc = UploadError("basic", outcome, runs[r].i)]
            /\ UNCHANGED <<progress_store, written, documents_store>>
    /\ UNCHANGED <<cleanup, loop, nextUuid, Readers, upload_dir>>

\* EnhancedMemoryService.process_document_enhanced up to its first loop.
EnhancedBegin(r) ==
    /\ loop = r
    /\ runs[r].pc = "ingest"
    /\ runs[r].path = "enhanced"
    /\ Write(r, progress_callback_enhanced(0, runs[r].n, <<"Starting enhanced processing", runs[r].n>>))
    /\ runs' = [runs EXCEPT ![r].pc = "enrich", ![r].i = 0]
    /\ UNCHANGED <<sent, cleanup, loop, nextUuid, Readers, Disk>>

\* The enrichment loop with a failed LLM call left to propagate.
EnrichChunk_Fatal(r, llm) ==
    /\ loop = r
    /\ runs[r].pc = "enrich"
    /\ runs[r].i < runs[r].n
    /\ IF llm = "error"
       THEN /\ runs' = [runs EXCEPT ![r].pc = "except",
                           ![r].exc = Exc("APITimeoutError", <<"Request timed out.">>)]
            /\ UNCHANGED <<progress_store, written, nextUuid>>
       ELSE /\ Write(r, progress_callback_enhanced(runs[r].i + 1, runs[r].n,
                          <<"Enhanced chunk", runs[r].i + 1, runs[r].n>>))
            /\ LET last == runs[r].i + 1 = runs[r].n
               IN  /\ runs' = [runs EXCEPT
                         ![r].enhanced_chunks = Append(@,
                             [content |-> runs[r].i, llm_failed |-> llm # "tool_call",
                              metadata |-> generate_enhanced_metadata(llm, nextUuid,
                                               runs[r].i, runs[r].n)]),
                         ![r].i = IF last THEN 0 ELSE @ + 1,
                         ![r].pc = IF last THEN "upload" ELSE "enrich",
                         ![r].chunk_ids = 0,
                         ![r].document_id = IF last THEN nextUuid + 1 ELSE @]
                   /\ nextUuid' = nextUuid + (IF last THEN 2 ELSE 1)
    /\ UNCHANGED <<sent, cleanup, loop, Readers, Disk>>

\* One turn of the enrichment loop: _generate_enhanced_metadata returns the
\* LLM's metadata or the fallback metadata, and the callback follows (the
\* except branch of the loop is never taken: _generate_enhanced_metadata
\* catches what the call raises).  The llm_failed field of an enhanced
\* chunk remembers whether the call gave no metadata.  After the last turn the document id of the
\* result is generated.
EnrichChunk(r, llm) ==
    /\ loop = r
    /\ runs[r].pc = "enrich"
    /\ runs[r].i < runs[r].n
    /\ Write(r, progress_callback_enhanced(runs[r].i + 1, runs[r].n,
                   <<"Enhanced chunk", runs[r].i + 1, runs[r].n>>))
    /\ LET last == runs[r].i + 1 = runs[r].n
       IN  /\ runs' = [runs EXCEPT
                 ![r].enhanced_chunks = Append(@,
                     [content |-> runs[r].i, llm_failed |-> llm # "tool_call",
                      metadata |-> generate_enhanced_metadata(llm, nextUuid, runs[r].i,
                                                              runs[r].n)]),
                 ![r].i = IF last THEN 0 ELSE @ + 1,
                 ![r].pc = IF last THEN "upload" ELSE "enrich",
                 ![r].chunk_ids = 0,
                 ![r].document_id = IF last THEN nextUuid + 1 ELSE @]
           /\ nextUuid' = nextUuid + (IF last THEN 2 ELSE 1)
    /\ UNCHANGED <<sent, cleanup, loop, Readers, Disk>>

\* The upload loop with a failed call tried again.
EnhancedUploadChunk_Retry(r, outcome) ==
    /\ loop = r
    /\ runs[r].pc = "upload"
    /\ runs[r].path = "enhanced"
    /\ runs[r].i < runs[r].n
    /\ LET enhanced_chunk == runs[r].enhanced_chunks[runs[r].i + 1]
       IN  sent' = [sent EXCEPT ![r] = Append(@,
                   [call |-> "memory.add", content |-> enhanced_chunk.content,
                    outcome |-> outcome,
                    custom_metadata |-> CustomMetadata(enhanced_chunk.metadata)])]
    /\ Len(sent[r]) < 2 * runs[r].n
    /\ IF outcome = "ok"
       THEN /\ Write(r, progress_callback_enhanced(Len(runs[r].enhanced_chunks) + runs[r].i + 1,
                          runs[r].n * 2,
                          <<"Uploaded enhanced chunk", runs[r].i + 1, runs[r].n>>))
            /\ runs' = [runs EXCEPT ![r].i = @ + 1, ![r].chunk_ids = @ + 1,
                           ![r].pc = IF runs[r].i + 1 = runs[r].n THEN "uploaded" ELSE "upload"]
       ELSE UNCHANGED <<runs, progress_store, written>>
    /\ UNCHANGED <<cleanup, loop, nextUuid, Readers, Disk>>

\* One turn of the upload loop of process_document_enhanced:
\* add_memory_with_metadata for enhanced chunk i, then the callback on the
\* doubled scale, or the exception re-raised.
EnhancedUploadChunk(r, outcome) ==
    /\ loop = r
    /\ runs[r].pc = "upload"
    /\ runs[r].path = "enhanced"
    /\ runs[r].i < runs[r].n
    /\ LET enhanced_chunk == runs[r].enhanced_chunks[runs[r].i + 1]
       IN  sent' = [sent EXCEPT ![r] = Append(@,
                   [call |-> "memory.add", content |-> enhanced_chunk.content,
                    outcome |-> outcome,
                    custom_metadata |-> CustomMetadata(enhanced_chunk.metadata)])]
    /\ IF outcome = "ok"
       THEN /\ Write(r, progress_callback_enhanced(Len(runs[r].enhanced_chunks) + runs[r].i + 1,
                          runs[r].n * 2,
                          <<"Uploaded enhanced chunk", runs[r].i + 1, runs[r].n>>))
            /\ runs' = [runs EXCEPT ![r].i = @ + 1, ![r].chunk_ids = @ + 1,
                           ![r].pc = IF runs[r].i + 1 = runs[r].n THEN "uploaded" ELSE "upload"]
       ELSE /\ runs' = [runs EXCEPT ![r].pc = "except",
                           ![r].exc = UploadError("enhanced", outcome, runs[r].i)]
            /\ UNCHANGED <<progress_store, written>>
    /\ UNCHANGED <<cleanup, loop, nextUuid, Readers, Disk>>

\* The result with the chunks counted by the last loop index.
Result_ShortCount(run) ==
    IF run.path = "basic"
    THEN [document_id |-> run.document_id, chunks_created |-> run.chunk_ids - 1,
          total_chunks |-> run.n]
    ELSE [document_id |-> run.document_id, chunks_created |-> run.chunk_ids - 1,
          total_chunks |-> run.n, enhanced |-> TRUE]

\* The result the service returns.
Result(run) ==
    IF run.path = "basic"
    THEN [document_id |-> run.document_id, chunks_created |-> run.chunk_ids,
          total_chunks |-> run.n]
    ELSE [document_id |-> run.document_id, chunks_created |-> run.chunk_ids,
          total_chunks |-> run.n, enhanced |-> TRUE]

\* The locals of a handler that has returned are gone; what stays is what
\* it answered.
Returned(run, response) ==
    [IdleRun EXCEPT !.pc = "done", !.upload_id = run.upload_id, !.path = run.path,
                    !.file = run.file, !.n = run.n, !.response = response]

\* The completion followed by one more progress update.
Complete_ThenProgress(r) ==
    /\ loop = r
    /\ runs[r].pc = "uploaded"
    /\ progress_store' = DictSet(progress_store, runs[r].upload_id,
                                 update_progress(100, 100, <<"Done">>))
    /\ written' = [written EXCEPT ![r] =
                       @ \o <<complete(Result(runs[r])), progress_store'[runs[r].upload_id]>>]
    /\ cleanup' = [cleanup EXCEPT ![r] = [st |-> "sleeping", left |-> GraceWindow]]
    /\ runs' = [runs EXCEPT ![r] = Returned(@, <<200, "success">>)]
    /\ upload_dir' = upload_dir \ {r}
    /\ loop' = 0
    /\ UNCHANGED <<sent, nextUuid, Readers, documents_store>>

\* The service returns; cleanup_file; tracker.complete(result), which starts
\* the clean-up thread; the handler answers 200.
Complete(r) ==
    /\ loop = r
    /\ runs[r].pc = "uploaded"
    /\ Write(r, complete(Result(runs[r])))
    /\ cleanup' = [cleanup EXCEPT ![r] = [st |-> "sleeping", left |-> GraceWindow]]
    /\ runs' = [runs EXCEPT ![r] = Returned(@, <<200, "success">>)]
    /\ upload_dir' = upload_dir \ {r}
    /\ loop' = 0
    /\ UNCHANGED <<sent, nextUuid, Readers, documents_store>>

\* The handler that answers 500 without recording the error.
Fail_Unrecorded(r) ==
    /\ loop = r
    /\ runs[r].pc = "except"
    /\ runs' = [runs EXCEPT ![r] = Returned(@, <<500>> \o Str(runs[r].exc))]
    /\ loop' = 0
    /\ UNCHANGED <<progress_store, written, sent, cleanup, nextUuid, Readers, Disk>>

\* except Exception as e: tracker.error(str(e)); raise HTTPException(500, str(e))
Fail(r) ==
    /\ loop = r
    /\ runs[r].pc = "except"
    /\ Write(r, error(Str(runs[r].exc)))
    /\ runs' = [runs EXCEPT ![r] = Returned(@, <<500>> \o Str(runs[r].exc))]
    /\ loop' = 0
    /\ UNCHANGED <<sent, cleanup, nextUuid, Readers, Disk>>

RunStep(r) ==
    \/ BeginPdf(r)
    \/ Validate(r)
    \/ SaveAndExtract(r)
    \/ BeginIngest(r)
    \/ AddDocumentBegin(r)
    \/ \E outcome \in UploadOutcomes : AddDocumentChunk(r, outcome)
    \/ EnhancedBegin(r)
    \/ \E llm \in LlmOutcomes : EnrichChunk(r, llm)
    \/ \E outcome \in UploadOutcomes : EnhancedUploadChunk(r, outcome)
    \/ Complete(r)
    \/ Fail(r)

\* ------------------------------------------------- clean-up threads
\* cleanup_later of the completion of run r, after time.sleep(300):
\* the membership test.
CleanupCheck(r) ==
    /\ cleanup[r].st = "sleeping"
    /\ cleanup[r].left = 0
    /\ cleanup' = [cleanup EXCEPT ![r].st =
           IF runs[r].upload_id \in DOMAIN progress_store THEN "deleting" ELSE "done"]
    /\ UNCHANGED <<progress_store, runs, written, sent, loop, nextUuid, Readers, Disk>>

\* The clean-up that empties the store.
CleanupDelete_All(r) ==
    /\ cleanup[r].st = "deleting"
    /\ progress_store' = <<>>
    /\ cleanup' = [cleanup EXCEPT ![r].st = "done"]
    /\ UNCHANGED <<runs, written, sent, loop, nextUuid, Readers, Disk>>

\* del self.progress_store[self.upload_id]: a KeyError ends the thread when
\* the key went away since the test.
CleanupDelete(r) ==
    /\ cleanup[r].st = "deleting"
    /\ IF runs[r].upload_id \in DOMAIN progress_store
       THEN /\ progress_store' = DictDel(progress_store, runs[r].upload_id)
            /\ cleanup' = [cleanup EXCEPT ![r].st = "done"]
       ELSE /\ cleanup' = [cleanup EXCEPT ![r].st = "crashed"]
            /\ UNCHANGED progress_store
    /\ UNCHANGED <<runs, written, sent, loop, nextUuid, Readers, Disk>>

\* A clean-up thread whose sleep is over and which has not finished.
Due(c) == (c.st = "sleeping" /\ c.left = 0) \/ c.st = "deleting"

\* TickLen seconds pass.  A thread whose sleep is over acts before the next
\* TickLen seconds have passed, and so does an open stream, which polls
\* every 0.3 s at most.
Tick ==
    /\ \E r \in Runs : cleanup[r].st = "sleeping"
    /\ \A r \in Runs : ~Due(cleanup[r])
    /\ loop \notin {GetTask, StreamTask}
    /\ stream.pc \in {"waiting", "streaming"} => polled
    /\ cleanup' = [r \in Runs |->
           IF cleanup[r].st = "sleeping"
           THEN [cleanup[r] EXCEPT !.left = IF @ > TickLen THEN @ - TickLen ELSE 0]
           ELSE cleanup[r]]
    /\ polled' = FALSE
    /\ UNCHANGED <<progress_store, runs, written, sent, loop, nextUuid,
                   getResp, sawTerminal, stream, call, Disk>>

\* ------------------------------------------------------- point query
Terminal(rec) == rec.status \in {"complete", "error"}

\* get_upload_progress up to its read of the store: the membership test,
\* and the 404 when the id is not in the store.  The handler has no await,
\* so no other coroutine runs before it returns; the clean-up threads do.
\* A status_code of 0 is a query that has not answered yet.
Get(upload_id) ==
    /\ loop = 0
    /\ IF upload_id \notin DOMAIN progress_store
       THEN /\ getResp' = [upload_id |-> upload_id, status_code |-> 404,
                           body |-> [detail |-> "Upload not found"]]
            /\ loop' = 0
       ELSE /\ getResp' = [upload_id |-> upload_id, status_code |-> 0, body |-> <<>>]
            /\ loop' = GetTask
    /\ UNCHANGED <<progress_store, runs, written, sent, cleanup, nextUuid,
                   sawTerminal, stream, polled, call, Disk>>

\* progress_data = progress_store[upload_id]; return progress_data.  The
\* subscript raises KeyError when a clean-up thread deleted the key since
\* the membership test, and the server answers 500.  sawTerminal remembers
\* the ids for which a query has returned a complete or error record.
GetRead ==
    /\ loop = GetTask
    /\ IF getResp.upload_id \in DOMAIN progress_store
       THEN /\ getResp' = [getResp EXCEPT !.status_code = 200,
                                          !.body = progress_store[getResp.upload_id]]
            /\ sawTerminal' = IF Terminal(progress_store[getResp.upload_id])
                              THEN sawTerminal \cup {getResp.upload_id}
                              ELSE sawTerminal
       ELSE /\ getResp' = [getResp EXCEPT !.status_code = 500,
                                          !.body = [detail |-> "Internal Server Error"]]
            /\ UNCHANGED sawTerminal
    /\ loop' = 0
    /\ UNCHANGED <<progress_store, runs, written, sent, cleanup, nextUuid,
                   stream, polled, call, Disk>>

\* ----------------------------------------------------- progress stream
NotFoundEvent == [error |-> <<"Upload not found">>, status |-> "error"]

\* stream_upload_progress: the request arrives and event_stream starts.
StreamOpen(upload_id) ==
    /\ loop = 0
    /\ stream.pc = "idle"
    /\ stream' = [stream EXCEPT !.pc = "waiting", !.upload_id = upload_id]
    /\ polled' = TRUE
    /\ UNCHANGED <<progress_store, runs, written, sent, cleanup, loop, nextUuid,
                   getResp, sawTerminal, call, Disk>>

\* The wait for the id to appear, line by line of the while condition:
\* one more 0.1 s sleep while the id is absent and fewer than MaxWait
\* sleeps were made, the end of the wait otherwise.  From the end of the wait
\* to the next sleep the generator has no await: no other coroutine runs,
\* the clean-up threads do.
StreamWait ==
    /\ loop = 0
    /\ stream.pc = "waiting"
    /\ IF stream.upload_id \notin DOMAIN progress_store /\ stream.wait_count < MaxWait
       THEN /\ stream' = [stream EXCEPT !.wait_count = @ + 1]
            /\ loop' = 0
       ELSE /\ stream' = [stream EXCEPT !.pc = "found"]
            /\ loop' = StreamTask
    /\ polled' = TRUE
    /\ UNCHANGED <<progress_store, runs, written, sent, cleanup, nextUuid,
                   getResp, sawTerminal, call, Disk>>

\* The end of the wait with the not-found event sent and the stream going
\* on to its loop.
StreamFound_KeepsStreaming ==
    /\ loop = StreamTask
    /\ stream.pc = "found"
    /\ stream' = [stream EXCEPT
           !.events = IF stream.upload_id \notin DOMAIN progress_store
                      THEN Append(@, NotFoundEvent) ELSE @,
           !.pc = "check"]
    /\ loop' = loop
    /\ UNCHANGED <<progress_store, runs, written, sent, cleanup, nextUuid,
                   getResp, sawTerminal, polled, call, Disk>>

\* if upload_id not in progress_store after the wait: the not-found event
\* and the end of the stream; the streaming loop otherwise.
StreamFound ==
    /\ loop = StreamTask
    /\ stream.pc = "found"
    /\ IF stream.upload_id \notin DOMAIN progress_store
       THEN /\ stream' = [stream EXCEPT !.events = Append(@, NotFoundEvent),
                                        !.pc = "closed", !.end = "not_found"]
            /\ loop' = 0
       ELSE /\ stream' = [stream EXCEPT !.pc = "check"]
            /\ loop' = loop
    /\ UNCHANGED <<progress_store, runs, written, sent, cleanup, nextUuid,
                   getResp, sawTerminal, polled, call, Disk>>

\* The membership test that opens a turn of the while True loop, at the
\* first turn and after each asyncio.sleep(0.3): the stream ends when the id
\* is no longer in the store.
StreamPoll ==
    /\ \/ stream.pc = "check" /\ loop = StreamTask
       \/ stream.pc = "streaming" /\ loop = 0
    /\ IF stream.upload_id \in DOMAIN progress_store
       THEN /\ stream' = [stream EXCEPT !.pc = "read"]
            /\ loop' = StreamTask
       ELSE /\ stream' = [stream EXCEPT !.pc = "closed", !.end = "disappeared"]
            /\ loop' = 0
    /\ polled' = TRUE
    /\ UNCHANGED <<progress_store, runs, written, sent, cleanup, nextUuid,
                   getResp, sawTerminal, call, Disk>>

\* The turn with the record sent whether or not it changed.
StreamRead_AlwaysSend ==
    /\ loop = StreamTask
    /\ stream.pc = "read"
    /\ IF stream.upload_id \in DOMAIN progress_store
       THEN LET progress_data == progress_store[stream.upload_id]
            IN  stream' = [stream EXCEPT
                    !.events = Append(@, progress_data),
                    !.last_progress = <<progress_data>>,
                    !.pc = IF Terminal(progress_data) THEN "closed" ELSE "streaming",
                    !.end = IF Terminal(progress_data) THEN "terminal" ELSE @]
       ELSE stream' = [stream EXCEPT !.pc = "closed", !.end = "crashed"]
    /\ Len(stream.events) < 4
    /\ loop' = 0
    /\ UNCHANGED <<progress_store, runs, written, sent, cleanup, nextUuid,
                   getResp, sawTerminal, polled, call, Disk>>

\* The rest of the turn: the record is read (a KeyError ends the generator
\* when a clean-up thread deleted the key since the test), sent when it
\* differs from the last one sent, and the stream ends on a complete or
\* error record.  The suppressed field remembers that a turn found the
\* record unchanged and sent nothing.
StreamRead ==
    /\ loop = StreamTask
    /\ stream.pc = "read"
    /\ IF stream.upload_id \in DOMAIN progress_store
       THEN LET progress_data == progress_store[stream.upload_id]
                changed == <<progress_data>> # stream.last_progress
            IN  stream' = [stream EXCEPT
                    !.events = IF changed THEN Append(@, progress_data) ELSE @,
                    !.last_progress = IF changed THEN <<progress_data>> ELSE @,
                    !.suppressed = IF changed THEN @ ELSE TRUE,
                    !.pc = IF Terminal(progress_data) THEN "closed" ELSE "streaming",
                    !.end = IF Terminal(progress_data) THEN "terminal" ELSE @]
       ELSE stream' = [stream EXCEPT !.pc = "closed", !.end = "crashed"]
    /\ loop' = 0
    /\ UNCHANGED <<progress_store, runs, written, sent, cleanup, nextUuid,
                   getResp, sawTerminal, polled, call, Disk>>

\* The ingestion system: the routes, called with the ids and the files of
\* two sets, the
\* clean-up threads, the clock.
System(ids, files) ==
    \/ \E r \in Runs, upload_id \in ids, path \in Paths, file \in files :
           Start(r, upload_id, path, file)
    \/ \E r \in Runs : RunStep(r)
    \/ \E r \in Runs : CleanupCheck(r)
    \/ \E r \in Runs : CleanupDelete(r)
    \/ Tick

Next == System(Jobs, Files)

Spec == Init /\ [][Next]_vars

\* The system with a client that polls the point query.
NextGet ==
    \/ System(Jobs, Files)
    \/ \E upload_id \in Jobs : Get(upload_id)
    \/ GetRead

SpecGet == Init /\ [][NextGet]_vars

\* The system with a client that opens a progress stream.  A stream reads
\* the store between the steps of the handlers only, so it tells files
\* apart by how their run ends: the files here are one that is refused
\* before the first await, one that fails in extraction and the valid ones
\* of one chunk.  All uploads go under one id; the stream is opened for
\* that id or for an id no upload uses.
StreamJobs == {"j1"}
StreamFiles == {f \in Files : f.kind \in {"bad_type", "no_text", "ok"} /\ f.chunks <= 1}

NextStream ==
    \/ System(StreamJobs, StreamFiles)
    \/ \E upload_id \in Jobs : StreamOpen(upload_id)
    \/ StreamWait
    \/ StreamFound
    \/ StreamPoll
    \/ StreamRead

SpecStream == Init /\ [][NextStream]_vars

\* ------------------------------------------------ the documents routes
\* The document ids the remote store was given with a chunk it accepted.
RemoteDocuments ==
    UNION {{sent[r][k].custom_metadata.document_id :
               k \in {x \in 1..Len(sent[r]) :
                         /\ sent[r][x].outcome = "ok"
                         /\ "document_id" \in DOMAIN sent[r][x].custom_metadata}} :
           r \in Runs}

\* What client.memory.delete can do: return, or raise.
DeleteOutcomes == {"ok", "error"}

\* DELETE /documents/{document_id}: PaprMemoryService.delete_document calls
\* client.memory.delete and returns True, or lets the exception through and
\* the route answers 500.  The handler has no await.
Delete(document_id, outcome) ==
    /\ loop = 0
    /\ call' = IF outcome = "ok"
               THEN [op |-> "delete", document_id |-> document_id,
                     status_code |-> 200, status |-> "deleted"]
               ELSE [op |-> "delete", document_id |-> document_id,
                     status_code |-> 500, status |-> "error"]
    /\ UNCHANGED <<progress_store, runs, written, sent, cleanup, loop, nextUuid,
                   getResp, sawTerminal, stream, polled, Disk>>

\* GET /documents/list: a PaprMemoryService is built for the request, its
\* DocumentStore loads the store file, and get_user_documents returns the
\* entries of the file when there are any; when there are none it returns
\* what the search of the remote store gives.  The handler has no await.
List(found) ==
    /\ loop = 0
    /\ found \subseteq RemoteDocuments
    /\ call' = [op |-> "list",
                documents |-> IF DOMAIN documents_store # {}
                              THEN DOMAIN documents_store
                              ELSE found]
    /\ UNCHANGED <<progress_store, runs, written, sent, cleanup, loop, nextUuid,
                   getResp, sawTerminal, stream, polled, Disk>>

NextDocs ==
    \/ System(Jobs, Files)
    \/ \E document_id \in DOMAIN documents_store, outcome \in DeleteOutcomes :
           Delete(document_id, outcome)
    \/ \E found \in SUBSET RemoteDocuments : List(found)

SpecDocs == Init /\ [][NextDocs]_vars

\* -------------------------------------------- the tracker called directly
\* The arguments of the direct calls: counts on both sides of the totals,
\* totals that are negative, zero, powers of two and 100, so that
\* 100 * current / total is a whole number of thousandths whenever
\* total > 0.
TrackerCurrents == {0, 1, 7, 50, 100}
TrackerTotals == {0 - 1, 0, 1, 2, 100}
TrackerMessages == {<<"Processing PDF...">>, <<"Uploaded chunk", 1, 2>>}
TrackerErrors == {<<"400: File type not allowed">>}

\* ProgressTracker(upload_id).update_progress(current, total, message)
TrackerUpdate(upload_id, current, total, message) ==
    /\ progress_store' = DictSet(progress_store, upload_id,
                                 update_progress(current, total, message))
    /\ call' = [op |-> "update_progress", upload_id |-> upload_id,
                current |-> current, total |-> total, message |-> message]
    /\ UNCHANGED <<runs, written, sent, cleanup, loop, nextUuid,
                   getResp, sawTerminal, stream, polled, Disk>>

\* ProgressTracker(upload_id).error(error_message)
TrackerError(upload_id, error_message) ==
    /\ progress_store' = DictSet(progress_store, upload_id, error(error_message))
    /\ call' = [op |-> "error", upload_id |-> upload_id,
                error_message |-> error_message]
    /\ UNCHANGED <<runs, written, sent, cleanup, loop, nextUuid,
                   getResp, sawTerminal, stream, polled, Disk>>

NextTracker ==
    \/ \E upload_id \in Jobs, current \in TrackerCurrents, total \in TrackerTotals,
          message \in TrackerMessages :
           TrackerUpdate(upload_id, current, total, message)
    \/ \E upload_id \in Jobs, error_message \in TrackerErrors :
           TrackerError(upload_id, error_message)

SpecTracker == Init /\ [][NextTracker]_vars

\* ------------------------------------------------------- the chunkers
\* A string is a sequence of runs of characters.  A word is one run: id
\* tells the words of a text apart, chars is its length in characters and
\* width the UTF-8 bytes of each of its characters.  A run with id 0 is
\* white space: one blank, or the two line feeds that end a paragraph.
Word(id, chars, width) == [id |-> id, chars |-> chars, width |-> width]

Blank == Word(0, 1, 1)

ParagraphBreak == Word(0, 2, 1)

IsSpace(c) == c.id = 0

\* len(s)
RECURSIVE StrLen(_)
StrLen(s) == IF s = <<>> THEN 0 ELSE Head(s).chars + StrLen(Tail(s))

\* len(s.encode('utf-8'))
RECURSIVE ByteLen(_)
ByteLen(s) == IF s = <<>> THEN 0 ELSE Head(s).chars * Head(s).width + ByteLen(Tail(s))

\* s.split(): the words of s, each a string.
Split(s) ==
    LET words == SelectSeq(s, LAMBDA c : ~IsSpace(c))
    IN  [k \in 1..Len(words) |-> <<words[k]>>]

\* s.split(sep), current being the piece read so far.
RECURSIVE SplitOn(_, _, _)
SplitOn(s, sep, current) ==
    IF s = <<>> THEN <<current>>
    ELSE IF Head(s) = sep THEN <<current>> \o SplitOn(Tail(s), sep, <<>>)
    ELSE SplitOn(Tail(s), sep, Append(current, Head(s)))

\* sep.join(strs)
RECURSIVE Join(_, _)
Join(sep, strs) ==
    IF strs = <<>> THEN <<>>
    ELSE IF Len(strs) = 1 THEN strs[1]
    ELSE strs[1] \o <<sep>> \o Join(sep, Tail(strs))

\* s.strip()
RECURSIVE Strip(_)
Strip(s) ==
    IF s = <<>> THEN s
    ELSE IF IsSpace(Head(s)) THEN Strip(Tail(s))
    ELSE IF IsSpace(s[Len(s)]) THEN Strip(SubSeq(s, 1, Len(s) - 1))
    ELSE s

\* A slice that is always empty.
Slice_Empty(s, k) == <<>>

\* s[:k]
RECURSIVE Slice(_, _)
Slice(s, k) ==
    IF s = <<>> \/ k <= 0 THEN <<>>
    ELSE IF Head(s).chars <= k THEN <<Head(s)>> \o Slice(Tail(s), k - Head(s).chars)
    ELSE <<[Head(s) EXCEPT !.chars = k]>>

\* PaprMemoryService._chunk_content: the loop over the words from word i on.
RECURSIVE PaprWordLoop(_, _, _, _, _, _)
PaprWordLoop(words, i, chunks, current_chunk, current_size, max_chunk_size) ==
    IF i > Len(words)
    THEN IF current_chunk # <<>> THEN Append(chunks, Join(Blank, current_chunk))
                                 ELSE chunks
    ELSE LET word == words[i]
             word_size == ByteLen(word \o <<Blank>>)
         IN  IF current_size + word_size > max_chunk_size /\ current_chunk # <<>>
             THEN PaprWordLoop(words, i + 1,
                               Append(chunks, Join(Blank, current_chunk)),
                               <<word>>, word_size, max_chunk_size)
             ELSE PaprWordLoop(words, i + 1, chunks, Append(current_chunk, word),
                               current_size + word_size, max_chunk_size)

\* PaprMemoryService._chunk_content
papr_chunk_content(content, max_chunk_size) ==
    IF ByteLen(content) <= max_chunk_size
    THEN <<content>>
    ELSE PaprWordLoop(Split(content), 1, <<>>, <<>>, 0, max_chunk_size)

\* EnhancedMemoryService._chunk_content: the loop over the words of a long
\* paragraph from word j on.
RECURSIVE EnhancedWordLoop(_, _, _, _, _)
EnhancedWordLoop(words, j, chunks, current_chunk, max_size) ==
    IF j > Len(words)
    THEN [chunks |-> chunks, current_chunk |-> current_chunk]
    ELSE LET word == words[j]
         IN  IF StrLen(current_chunk) + StrLen(word) > max_size
             THEN IF current_chunk # <<>>
                  THEN EnhancedWordLoop(words, j + 1,
                                        Append(chunks, Strip(current_chunk)),
                                        word, max_size)
                  ELSE EnhancedWordLoop(words, j + 1,
                                        Append(chunks, Slice(word, max_size)),
                                        current_chunk, max_size)
             ELSE EnhancedWordLoop(words, j + 1, chunks,
                                   IF current_chunk # <<>>
                                   THEN current_chunk \o <<Blank>> \o word
                                   ELSE word,
                                   max_size)

\* EnhancedMemoryService._chunk_content: the loop over the paragraphs from
\* paragraph i on.
RECURSIVE EnhancedParagraphLoop(_, _, _, _, _)
EnhancedParagraphLoop(paragraphs, i, chunks, current_chunk, max_size) ==
    IF i > Len(paragraphs)
    THEN [chunks |-> chunks, current_chunk |-> current_chunk]
    ELSE LET paragraph == paragraphs[i]
         IN  IF StrLen(current_chunk) + StrLen(paragraph) > max_size
             THEN IF current_chunk # <<>>
                  THEN EnhancedParagraphLoop(paragraphs, i + 1,
                                             Append(chunks, Strip(current_chunk)),
                                             paragraph, max_size)
                  ELSE LET after == EnhancedWordLoop(Split(paragraph), 1, chunks,
                                                     current_chunk, max_size)
                       IN  EnhancedParagraphLoop(paragraphs, i + 1, after.chunks,
                                                 after.current_chunk, max_size)
             ELSE EnhancedParagraphLoop(paragraphs, i + 1, chunks,
                                        IF current_chunk # <<>>
                                        THEN current_chunk \o <<ParagraphBreak>> \o paragraph
                                        ELSE paragraph,
                                        max_size)

\* EnhancedMemoryService._chunk_content
enhanced_chunk_content(content, max_size) ==
    LET after == EnhancedParagraphLoop(SplitOn(content, ParagraphBreak, <<>>), 1,
                                       <<>>, <<>>, max_size)
    IN  IF after.current_chunk # <<>>
        THEN Append(after.chunks, Strip(after.current_chunk))
        ELSE after.chunks

\* The texts the chunkers are given: up to MaxParagraphs paragraphs of up to
\* MaxWords words, the words of up to MaxWordChars characters of up to
\* MaxWidth bytes each; words are numbered from 1 in reading order.
WordShapes == (1..MaxWordChars) \X (1..MaxWidth)

RECURSIVE Sum(_, _)
Sum(f, n) == IF n = 0 THEN 0 ELSE f[n] + Sum(f, n - 1)

\* The text of the paragraphs from p on; counts[p] words in paragraph p.
RECURSIVE Text(_, _, _)
Text(counts, shapes, p) ==
    LET first == Sum(counts, p - 1)
        paragraph == Join(Blank,
            [k \in 1..counts[p] |->
                <<Word(first + k, shapes[first + k][1], shapes[first + k][2])>>])
    IN  IF p = Len(counts) THEN paragraph
        ELSE paragraph \o <<ParagraphBreak>> \o Text(counts, shapes, p + 1)

\* The size bounds the chunkers are given, scaled to the texts above.
MaxSizes == {MaxSize - 1, MaxSize}

\* The chunkers are pure functions of their arguments: a behaviour follows
\* one call of one of them.
ChunkBasic(content, max_chunk_size) ==
    /\ call = NoCall
    /\ call' = [op |-> "_chunk_content", service |-> "papr", content |-> content,
                max_size |-> max_chunk_size,
                chunks |-> papr_chunk_content(content, max_chunk_size)]
    /\ UNCHANGED <<progress_store, runs, written, sent, cleanup, loop, nextUuid,
                   getResp, sawTerminal, stream, polled, Disk>>

ChunkEnhanced(content, max_size) ==
    /\ call = NoCall
    /\ call' = [op |-> "_chunk_content", service |-> "enhanced", content |-> content,
                max_size |-> max_size,
                chunks |-> enhanced_chunk_content(content, max_size)]
    /\ UNCHANGED <<progress_store, runs, written, sent, cleanup, loop, nextUuid,
                   getResp, sawTerminal, stream, polled, Disk>>

NextChunk ==
    /\ call = NoCall
    /\ \E paragraphs \in 1..MaxParagraphs :
           \E counts \in [1..paragraphs -> 1..MaxWords] :
               \E shapes \in [1..Sum(counts, paragraphs) -> WordShapes],
                  max_size \in MaxSizes :
                   \/ ChunkBasic(Text(counts, shapes, 1), max_size)
                   \/ ChunkEnhanced(Text(counts, shapes, 1), max_size)

SpecChunk == Init /\ [][NextChunk]_vars

\* ------------------------------------------- fallback metadata alone
\* A file name is a sequence of its parts.
Filenames == {<<"report", ".pdf">>, <<"annual", "_", "report", ".pdf">>}

\* filename.replace('.pdf', '').replace('_', ' ')
Keyword(filename) ==
    LET kept == SelectSeq(filename, LAMBDA part : part # ".pdf")
    IN  [k \in 1..Len(kept) |-> IF kept[k] = "_" THEN " " ELSE kept[k]]

\* {**a, **b}: the keys of both, b's value where both have the key.
DictMerge(a, b) ==
    [k \in DOMAIN a \cup DOMAIN b |-> IF k \in DOMAIN b THEN b[k] ELSE a[k]]

\* _create_fallback_metadata, every key of it: uuid is what uuid4 gives this
\* call and now what datetime.utcnow gives.  create_fallback_metadata above
\* is this record cut down to the keys the runs follow.
fallback_metadata(filename, chunk_index, total_chunks, base_metadata, uuid, now) ==
    DictMerge(base_metadata,
        [document_id |-> uuid,
         chunk_index |-> chunk_index,
         total_chunks |-> total_chunks,
         title |-> <<"Chunk", chunk_index + 1, "from", filename>>,
         summary |-> <<"Content chunk", chunk_index + 1, "of", total_chunks, "from",
                       filename>>,
         keywords |-> <<Keyword(filename)>>,
         topic_tags |-> <<"document">>,
         content_type |-> "other",
         language |-> "en",
         enhanced |-> FALSE,
         source_url |-> filename,
         created_at |-> now])

\* The base metadata of the enhanced route, and one with a key that the
\* fallback metadata sets too.
BaseMetadatas ==
    {[upload_type |-> "enhanced"], [upload_type |-> "enhanced", language |-> "fr"]}

Clock == {1, 2}

\* One call of _create_fallback_metadata; the calls are counted by the
\* identifiers they draw.
CreateFallback(filename, chunk_index, total_chunks, base_metadata, now) ==
    /\ nextUuid <= MaxCalls
    /\ call' = [op |-> "_create_fallback_metadata", filename |-> filename,
                chunk_index |-> chunk_index, total_chunks |-> total_chunks,
                base_metadata |-> base_metadata,
                result |-> fallback_metadata(filename, chunk_index, total_chunks,
                                             base_metadata, nextUuid, now)]
    /\ nextUuid' = nextUuid + 1
    /\ UNCHANGED <<progress_store, runs, written, sent, cleanup, loop,
                   getResp, sawTerminal, stream, polled, Disk>>

NextFallback ==
    \E filename \in Filenames, total_chunks \in 1..MaxChunks,
       base_metadata \in BaseMetadatas, now \in Clock :
        \E chunk_index \in 0..(total_chunks - 1) :
            CreateFallback(filename, chunk_index, total_chunks, base_metadata, now)

SpecFallback == Init /\ [][NextFallback]_vars

\* ------------------------------------------------------------ claims
Last(seq) == seq[Len(seq)]

AllOk(calls) == \A k \in 1..Len(calls) : calls[k].outcome = "ok"

\* The runs started so far under a job id.
RunsUnder(upload_id) ==
    {r \in Runs : runs[r].pc # "idle" /\ runs[r].upload_id = upload_id}

\* C1: within one ingestion run the percentage of the records it writes
\* never decreases from one record to the next, up to the terminal record
\* (the error record, which resets the percentage, is left out).
C1_PercentNonDecreasing ==
    \A r \in Runs : \A k \in 1..(Len(written[r]) - 1) :
        written[r][k + 1].status # "error"
            => written[r][k].percent <= written[r][k + 1].percent

\* C4 as the specification states it: a run whose file fails validation
\* never writes a record with status processing under its job id.
C4_NeverProcessing ==
    \A r \in Runs :
        runs[r].file \in BadFiles
            => \A k \in 1..Len(written[r]) : written[r][k].status # "processing"

\* C4: a run whose file fails validation or extraction answers 500 with the
\* message of the failure and records it as the job's error record; before
\* that it wrote the processing records of 0 % and 10 % and nothing else;
\* it uploads no chunk, writes no complete record and starts no clean-up.
C4_ValidationFailureRecorded ==
    \A r \in Runs :
        (runs[r].pc = "done" /\ runs[r].file \in BadFiles) =>
            /\ Len(written[r]) = 3
            /\ written[r][1].status = "processing" /\ written[r][1].percent = 0
            /\ written[r][2].status = "processing"
            /\ written[r][2].percent = 10 * PctOne
            /\ written[r][3].status = "error"
            /\ written[r][3].error =
                  Str(IF runs[r].file \in {"no_filename", "bad_type", "too_large"}
                      THEN ValidationError(runs[r].file)
                      ELSE SaveError(runs[r].file))
            /\ runs[r].response = <<500>> \o written[r][3].error
            /\ sent[r] = <<>>
            /\ cleanup[r].st = "none"

C4_Witness ==
    \E r \in Runs :
        /\ runs[r].pc = "done"
        /\ runs[r].file = "bad_type"
        /\ runs[r].path = "enhanced"
        /\ runs[r].upload_id \in DOMAIN progress_store
        /\ progress_store[runs[r].upload_id].status = "error"

\* C5: a failed upload call is the last call of its run; the run writes no
\* complete record; and once the handler has returned, the last record it
\* wrote is the error record carrying the message of that call's exception,
\* and the answer is a 500.
C5_UploadFailureIsFatal ==
    \A r \in Runs : \A k \in 1..Len(sent[r]) :
        sent[r][k].outcome # "ok" =>
            /\ k = Len(sent[r])
            /\ runs[r].pc \in {"except", "done"}
            /\ \A m \in 1..Len(written[r]) : written[r][m].status # "complete"
            /\ cleanup[r].st = "none"
            /\ runs[r].pc = "done" =>
                  /\ Last(written[r]).status = "error"
                  /\ Last(written[r]).error =
                        Str(UploadError(runs[r].path, sent[r][k].outcome, k - 1))
                  /\ runs[r].response = <<500>> \o Last(written[r]).error

C5_Witness ==
    \E r \in Runs :
        /\ runs[r].pc = "done"
        /\ runs[r].n = 3
        /\ Len(sent[r]) = 2
        /\ sent[r][2].outcome # "ok"
        /\ Last(written[r]).status = "error"

\* C6: on the enhanced path a chunk whose LLM call gave no metadata gets the
\* fallback metadata (enhanced = false) and stays in its place; the upload
\* phase starts with all n chunks; the only exceptions of a run are a
\* rejected file and a failed upload; and a run whose n uploads succeeded
\* ends complete with chunks_created = total_chunks = n.
C6_EnrichmentFailureNotFatal ==
    \A r \in Runs :
        runs[r].path = "enhanced" =>
            /\ \A k \in 1..Len(runs[r].enhanced_chunks) :
                  /\ runs[r].enhanced_chunks[k].content = k - 1
                  /\ runs[r].enhanced_chunks[k].metadata.enhanced
                         = ~runs[r].enhanced_chunks[k].llm_failed
            /\ runs[r].pc \in {"upload", "uploaded"}
                  => Len(runs[r].enhanced_chunks) = runs[r].n
            /\ runs[r].pc = "except"
                  => \/ runs[r].file \in BadFiles
                     \/ sent[r] # <<>> /\ Last(sent[r]).outcome # "ok"
            /\ runs[r].pc = "uploaded"
                  => Len(sent[r]) = runs[r].n /\ AllOk(sent[r])
            /\ (/\ runs[r].pc = "done" /\ runs[r].file = "ok"
                /\ Len(sent[r]) = runs[r].n /\ AllOk(sent[r]))
                  => /\ Last(written[r]).status = "complete"
                     /\ Last(written[r]).result.chunks_created = runs[r].n
                     /\ Last(written[r]).result.total_chunks = runs[r].n

C6_Witness ==
    \E r \in Runs :
        /\ runs[r].path = "enhanced"
        /\ runs[r].pc = "uploaded"
        /\ runs[r].n >= 2
        /\ \E k \in 1..runs[r].n : runs[r].enhanced_chunks[k].llm_failed
        /\ \E k \in 1..runs[r].n : ~runs[r].enhanced_chunks[k].llm_failed
        /\ Len(sent[r]) = runs[r].n

\* C7: a run of n chunks whose uploads all succeeded ends with the complete
\* record: current = total = n, percent = 100, result.chunks_created =
\* result.total_chunks = n, result.document_id an id generated in this
\* process, and the answer is a 200.
C7_SuccessfulRunCompletes ==
    \A r \in Runs :
        (/\ runs[r].pc = "done"
         /\ runs[r].file = "ok"
         /\ Len(sent[r]) = runs[r].n
         /\ AllOk(sent[r])) =>
            LET rec == Last(written[r])
            IN  /\ runs[r].n >= 1
                /\ rec.status = "complete"
                /\ rec.current = runs[r].n
                /\ rec.total = runs[r].n
                /\ rec.percent = 100 * PctOne
                /\ rec.result.chunks_created = runs[r].n
                /\ rec.result.total_chunks = runs[r].n
                /\ rec.result.document_id \in 1..(nextUuid - 1)
                /\ runs[r].response = <<200, "success">>
                /\ \A q \in Runs \ {r} :
                      (runs[q].pc = "done" /\ Last(written[q]).status = "complete")
                          => Last(written[q]).result.document_id # rec.result.document_id

C7_Witness ==
    \E r \in Runs :
        /\ runs[r].pc = "done"
        /\ runs[r].path = "basic"
        /\ runs[r].n = 3
        /\ Last(written[r]).status = "complete"
        /\ runs[r].upload_id \in DOMAIN progress_store
        /\ progress_store[runs[r].upload_id] = Last(written[r])

\* C8: on both paths every chunk sent to the remote store carries, in the
\* metadata the store receives, the chunk's index, the number of chunks and
\* one document group id, the same for all chunks of the run and equal to
\* the document_id of the run's result.
C8_SharedDocumentId ==
    \A r \in Runs : \A k \in 1..Len(sent[r]) :
        LET m == sent[r][k].custom_metadata
        IN  /\ {"document_id", "chunk_index", "total_chunks"} \subseteq DOMAIN m
            /\ m.document_id = sent[r][1].custom_metadata.document_id
            /\ m.chunk_index = k - 1
            /\ m.total_chunks = runs[r].n
            /\ (runs[r].pc = "done" /\ Last(written[r]).status = "complete")
                  => m.document_id = Last(written[r]).result.document_id

\* C9: the chunks of a run are uploaded in index order, one call each: the
\* k-th call carries chunk k - 1, every call before the last one succeeded,
\* there are never more than n calls, and while the loop runs its index is
\* the number of calls made.
C9_InOrderExactlyOnce ==
    \A r \in Runs :
        /\ Len(sent[r]) <= runs[r].n
        /\ \A k \in 1..Len(sent[r]) :
              /\ sent[r][k].content = k - 1
              /\ k < Len(sent[r]) => sent[r][k].outcome = "ok"
        /\ runs[r].pc = "upload" => runs[r].i = Len(sent[r])

C9_Witness ==
    \E r \in Runs :
        /\ runs[r].path = "enhanced"
        /\ Len(sent[r]) = 3
        /\ AllOk(sent[r])
        /\ \E q \in Runs : runs[q].path = "basic" /\ Len(sent[q]) = 2 /\ ~AllOk(sent[q])

\* C2 as the specification states it: a point query never returns a
\* processing record for a job id for which an earlier query returned a
\* complete or error record.
C2_NoProcessingAfterTerminal ==
    (getResp.status_code = 200 /\ getResp.body.status = "processing")
        => getResp.upload_id \notin sawTerminal

\* C2: for a job id under which one ingestion run was started, only the
\* last record the run wrote is a terminal one, the store holds under the
\* id the last record written or nothing, and no query returns a processing
\* record once a query has returned a complete or error record.
C2_OneRunNeverGoesBack ==
    \A upload_id \in Jobs : \A r \in Runs :
        RunsUnder(upload_id) = {r} =>
            /\ \A k \in 1..(Len(written[r]) - 1) : ~Terminal(written[r][k])
            /\ upload_id \in DOMAIN progress_store
                  => progress_store[upload_id] = Last(written[r])
            /\ upload_id \in sawTerminal
                  => /\ Terminal(Last(written[r]))
                     /\ (getResp.upload_id = upload_id /\ getResp.status_code = 200)
                           => getResp.body = Last(written[r])

C2_Witness ==
    \E upload_id \in Jobs : \E r \in Runs :
        /\ RunsUnder(upload_id) = {r}
        /\ upload_id \in sawTerminal
        /\ Last(written[r]).status = "complete"
        /\ getResp.upload_id = upload_id
        /\ getResp.status_code = 404

\* C3: the record of a completed run stays retrievable for the 300 s of its
\* grace window (while the run's clean-up thread sleeps, the job id is in
\* the store), and once the thread has finished the record the completion
\* wrote is no longer in the store.
C3_GraceWindow ==
    \A r \in Runs :
        /\ (cleanup[r].st = "sleeping" /\ cleanup[r].left > 0)
              => runs[r].upload_id \in DOMAIN progress_store
        /\ (cleanup[r].st \in {"done", "crashed"}
              /\ runs[r].upload_id \in DOMAIN progress_store)
              => progress_store[runs[r].upload_id] # Last(written[r])

\* C10: a stream that found a record has ended exactly when it has emitted
\* a terminal record: a closed stream (other than one that gave up waiting)
\* emitted a complete or error record last, and a stream still open has
\* emitted none.
C10_StreamEndsOnTerminal ==
    /\ (stream.pc = "closed" /\ stream.end # "not_found")
          => /\ stream.events # <<>>
             /\ Terminal(Last(stream.events))
    /\ stream.pc = "streaming"
          => \A k \in 1..Len(stream.events) : ~Terminal(stream.events[k])

\* C11: a stream sends the record only when it differs from the record it
\* sent last: no two consecutive events of a stream are equal, and the
\* record the stream compares with is the last one it sent.
C11_NoConsecutiveDuplicates ==
    /\ \A k \in 1..(Len(stream.events) - 1) : stream.events[k] # stream.events[k + 1]
    /\ stream.end # "not_found"
          => \/ stream.events = <<>> /\ stream.last_progress = <<>>
             \/ stream.events # <<>> /\ stream.last_progress = <<Last(stream.events)>>

C11_Witness ==
    /\ stream.suppressed
    /\ Len(stream.events) = 2
    /\ stream.end = "terminal"

\* C12: a stream sends nothing while it waits; a stream that gives up the
\* wait sends the not-found event, alone, and is closed; and a stream for
\* an id under which nothing was ever written ends in no other way, after
\* MaxWait sleeps.
C12_NotFoundAfterBoundedWait ==
    /\ stream.pc \in {"waiting", "found"} => stream.events = <<>>
    /\ stream.wait_count <= MaxWait
    /\ stream.end = "not_found"
          => stream.pc = "closed" /\ stream.events = <<NotFoundEvent>>
    /\ (RunsUnder(stream.upload_id) = {} /\ stream.pc \notin {"idle", "waiting", "found"})
          => /\ stream.end = "not_found"
             /\ stream.wait_count = MaxWait

C12_Witness ==
    /\ stream.end = "not_found"
    /\ stream.wait_count = MaxWait
    /\ stream.upload_id = "j2"
    /\ RunsUnder("j1") # {}

\* C13: what a client gets for an id that has no record is distinct from a
\* job's error status: the point query's 404 carries no status, and the
\* event of a stream that gave up the wait does not have status error.
C13_NotFoundDistinctFromError ==
    /\ getResp.status_code = 404 => "status" \notin DOMAIN getResp.body
    /\ stream.end = "not_found" => Last(stream.events).status # "error"

\* C14: every step of a point query leaves the store as it is; a query
\* that finds no record for the id answers 404 and a 404 is answered only
\* then; a query that found a record answers 200 with the record the store
\* holds for the id, the one written last: it gives no other answer.
C14_PointQuery ==
    [][getResp' # getResp =>
          /\ progress_store' = progress_store
          /\ getResp'.status_code \in {0, 200, 404}
          /\ getResp'.status_code = 404
                <=> (loop = 0 /\ getResp'.upload_id \notin DOMAIN progress_store)
          /\ getResp'.status_code = 200
                => /\ getResp'.upload_id \in DOMAIN progress_store
                   /\ getResp'.body = progress_store[getResp'.upload_id]
                   /\ \E r \in Runs : /\ runs[r].upload_id = getResp'.upload_id
                                      /\ written[r] # <<>>
                                      /\ getResp'.body = Last(written[r])
    ]_vars

\* The record of a job id, or the absence of one, is not the same before
\* and after a step.
RecordChanged(upload_id) ==
    \/ (upload_id \in DOMAIN progress_store) # (upload_id \in DOMAIN progress_store')
    \/ /\ upload_id \in DOMAIN progress_store
       /\ upload_id \in DOMAIN progress_store'
       /\ progress_store[upload_id] # progress_store'[upload_id]

\* C15: jobs with distinct ids do not touch each other's records: a step
\* changes the record of a job id only when it is a tracker write or a
\* clean-up of a run under that id, and the record the store holds for an
\* id is always the last one some run under that id wrote.
C15_NoCrossContamination ==
    [][/\ \A upload_id \in Jobs :
             RecordChanged(upload_id)
                => \E r \in Runs :
                      /\ runs'[r].upload_id = upload_id
                      /\ written'[r] # written[r] \/ cleanup'[r] # cleanup[r]
       /\ \A upload_id \in DOMAIN progress_store' :
             \E r \in Runs :
                /\ runs'[r].upload_id = upload_id
                /\ written'[r] # <<>>
                /\ progress_store'[upload_id] = Last(written'[r])
    ]_vars

C15_Witness ==
    \E a, b \in Runs :
        /\ runs[a].upload_id = "j1"
        /\ runs[b].upload_id = "j2"
        /\ runs[a].pc = "saving"
        /\ cleanup[b].st = "done"
        /\ DOMAIN progress_store = {"j1"}
        /\ progress_store["j1"] = Last(written[a])

\* C16: a run in its enrichment or upload phase is suspended between two
\* of its per-chunk updates and does not hold the event loop, so that a
\* point query or a stream poll can run there and see the per-chunk record.
C16_SuspendsBetweenChunks ==
    \A r \in Runs : runs[r].pc \in {"enrich", "upload"} => loop # r

\* C17: after update_progress(current, total, message) the record of the
\* job has these five fields and no other: status processing, the current,
\* total and message of the call, and percent equal to 100 * current / total
\* when total > 0 and to 0 otherwise, whatever record was there before.
C17_UpdateReplacesRecord ==
    call.op = "update_progress" =>
        /\ call.upload_id \in DOMAIN progress_store
        /\ LET rec == progress_store[call.upload_id]
           IN  /\ DOMAIN rec = {"current", "total", "percent", "message", "status"}
               /\ rec.status = "processing"
               /\ rec.current = call.current
               /\ rec.total = call.total
               /\ rec.message = call.message
               /\ IF call.total > 0
                  THEN rec.percent * call.total = 100 * PctOne * call.current
                  ELSE rec.percent = 0

\* C18: the first step of an ingestion puts under its job id the processing
\* record of 0 %, whatever record the id had: after the step the record has
\* neither the result nor the error detail of an earlier run.
C18_ReuseOverwrites ==
    [][\A r \in Runs :
          (runs[r].pc = "idle" /\ runs'[r].pc # "idle") =>
              /\ runs'[r].upload_id \in DOMAIN progress_store'
              /\ LET rec == progress_store'[runs'[r].upload_id]
                 IN  /\ rec.status = "processing"
                     /\ rec.current = 0
                     /\ rec.percent = 0
                     /\ rec.message \in {<<"Starting upload...">>,
                                         <<"Starting enhanced upload...">>}
                     /\ "result" \notin DOMAIN rec
                     /\ "error" \notin DOMAIN rec
                     /\ written'[r] = <<rec>>
    ]_vars

C18_Witness ==
    \E r, q \in Runs :
        /\ runs[r].pc = "done"
        /\ Last(written[r]).status = "complete"
        /\ cleanup[r].st = "sleeping"
        /\ cleanup[r].left > 0
        /\ runs[q].pc = "init"
        /\ runs[q].upload_id = runs[r].upload_id
        /\ progress_store[runs[q].upload_id] = written[q][1]
        /\ progress_store[runs[q].upload_id].percent = 0

\* C19: every record in the store has a result field exactly when its
\* status is complete and an error field exactly when its status is error.
C19_ResultAndErrorFields ==
    \A upload_id \in DOMAIN progress_store :
        LET rec == progress_store[upload_id]
        IN  /\ rec.status \in {"processing", "complete", "error"}
            /\ "result" \in DOMAIN rec <=> rec.status = "complete"
            /\ "error" \in DOMAIN rec <=> rec.status = "error"

C19_Witness ==
    /\ DOMAIN progress_store = {"j1", "j2"}
    /\ progress_store["j1"].status = "complete"
    /\ progress_store["j2"].status = "error"
    /\ \A r \in Runs : runs[r].pc = "done"

\* The word of a text that has the given id.
InputWord(content, id) ==
    CHOOSE c \in {content[k] : k \in 1..Len(content)} : c.id = id

\* C20: every chunk a chunker produces is at most max_size bytes long, and
\* a chunk that is a single word longer than max_size bytes in the text is
\* exactly max_size bytes long.
C20_ChunkWithinBound ==
    call.op = "_chunk_content" =>
        \A k \in 1..Len(call.chunks) :
            LET chunk == call.chunks[k]
            IN  IF /\ Len(chunk) = 1
                   /\ ByteLen(<<InputWord(call.content, chunk[1].id)>>) > call.max_size
                THEN ByteLen(chunk) = call.max_size
                ELSE ByteLen(chunk) <= call.max_size

\* The words of the chunks, in the order of the chunks.
RECURSIVE ChunkWords(_)
ChunkWords(chunks) ==
    IF chunks = <<>> THEN <<>> ELSE Split(Head(chunks)) \o ChunkWords(Tail(chunks))

\* C21 as stated: the words of the chunks are the words of the text, none
\* lost, duplicated, shortened or reordered.
C21_WordSequencePreserved ==
    call.op = "_chunk_content" => ChunkWords(call.chunks) = Split(call.content)

\* C21: the words of the chunks are the words of the text in their order,
\* none lost or duplicated; a word is whole, except that the enrichment
\* chunker may give the first max_size characters of a word that is longer.
C21_WordOrderPreserved ==
    call.op = "_chunk_content" =>
        LET out == ChunkWords(call.chunks)
            inp == Split(call.content)
        IN  /\ Len(out) = Len(inp)
            /\ \A k \in 1..Len(inp) :
                   \/ out[k] = inp[k]
                   \/ /\ call.service = "enhanced"
                      /\ StrLen(inp[k]) > call.max_size
                      /\ out[k] = Slice(inp[k], call.max_size)

C21_Witness ==
    /\ call.op = "_chunk_content"
    /\ call.service = "enhanced"
    /\ Len(call.chunks) = 3
    /\ Len(Split(call.content)) = 4
    /\ \E k \in 1..3 : ChunkWords(call.chunks)[k] # Split(call.content)[k]

\* C22: two calls of _create_fallback_metadata with the same file name,
\* chunk index, chunk count and base metadata return the same value under
\* every key but created_at.
C22_FallbackDeterministic ==
    [][(/\ call.op = "_create_fallback_metadata"
        /\ call'.op = "_create_fallback_metadata"
        /\ call'.filename = call.filename
        /\ call'.chunk_index = call.chunk_index
        /\ call'.total_chunks = call.total_chunks
        /\ call'.base_metadata = call.base_metadata) =>
           /\ DOMAIN call'.result = DOMAIN call.result
           /\ \A k \in DOMAIN call.result \ {"created_at"} :
                  call'.result[k] = call.result[k]
    ]_vars

\* C23: of the records an enrichment run writes, those of the enrichment
\* loop have a percent of at most 80 and those of the upload loop a percent
\* from 80 to 100.
C23_PhaseSubRanges ==
    \A r \in Runs : \A k \in 1..Len(written[r]) :
        LET rec == written[r][k]
        IN  /\ rec.message[1] = "Enhanced chunk" => rec.percent <= 80 * PctOne
            /\ rec.message[1] = "Uploaded enhanced chunk" =>
                   /\ rec.percent >= 80 * PctOne
                   /\ rec.percent <= 100 * PctOne

\* C24: every record a run writes has 0 <= current <= total and a percent
\* from 0 to 100.
C24_CountsAndPercentInRange ==
    \A r \in Runs : \A k \in 1..Len(written[r]) :
        LET rec == written[r][k]
        IN  /\ 0 <= rec.current
            /\ rec.current <= rec.total
            /\ 0 <= rec.percent
            /\ rec.percent <= 100 * PctOne

C24_Witness ==
    \E r, q \in Runs :
        /\ runs[r].path = "enhanced"
        /\ runs[r].n = MaxChunks
        /\ Len(written[r]) = 2 * MaxChunks + 5
        /\ Last(written[r]).status = "complete"
        /\ written[r][Len(written[r]) - 1].message =
               <<"Uploaded enhanced chunk", MaxChunks, MaxChunks>>
        /\ runs[q].path = "basic"
        /\ runs[q].n > 1
        /\ Last(written[q]).status = "complete"

\* C25: no clean-up thread ends with an error: one that finds the key of
\* its job absent does nothing.
C25_EvictionNeverRaises ==
    \A r \in Runs : cleanup[r].st # "crashed"

\* C26: a record that leaves the store is a completion record: no record
\* with status processing or error is removed.
C26_OnlyCompleteEvicted ==
    [][\A upload_id \in DOMAIN progress_store \ DOMAIN progress_store' :
           progress_store[upload_id].status = "complete"]_vars

\* The document id in the result of a run that ended complete.
CompletedDocument(r) == Last(written[r]).result.document_id

Completed(r) == runs[r].pc = "done" /\ Last(written[r]).status = "complete"

\* C27: when two runs of the basic route have both completed, the store
\* file has the entries of both documents.
C27_NoLostStoreUpdate ==
    \A r, q \in Runs :
        (/\ r # q
         /\ runs[r].path = "basic"
         /\ runs[q].path = "basic"
         /\ Completed(r)
         /\ Completed(q)) =>
            {CompletedDocument(r), CompletedDocument(q)} \subseteq DOMAIN documents_store

\* C28: the temporary file of a run that has ended, complete or in error,
\* is not on disk.
C28_TempFileRemoved ==
    \A r \in Runs : runs[r].pc = "done" => r \notin upload_dir

\* C29: a run that ended complete has its document in the store file, with
\* chunks_created = total_chunks, and a run that ended in error has added
\* no entry.
C29_StoreEntryIffSuccess ==
    /\ \A r \in Runs :
           Completed(r) =>
               /\ CompletedDocument(r) \in DOMAIN documents_store
               /\ documents_store[CompletedDocument(r)].chunks_created =
                      documents_store[CompletedDocument(r)].total_chunks
    /\ \A document_id \in DOMAIN documents_store :
           \E r \in Runs :
               \/ Completed(r) /\ CompletedDocument(r) = document_id
               \/ runs[r].pc = "uploaded" /\ runs[r].document_id = document_id

\* C30: a document list that follows a delete answered with status deleted
\* does not have the deleted document.
C30_DeletedNotListed ==
    [][(/\ call.op = "delete"
        /\ call.status = "deleted"
        /\ call'.op = "list") =>
           call.document_id \notin call'.documents]_vars

====
